---------------------------- MODULE Spec2Model ----------------------------
(***************************************************************************)
(* Model of the semordnilap search engine (search_engine.py).              *)
(*                                                                         *)
(* A string is a sequence of code points; a code point is written as a     *)
(* short name ("a", "a_acute" for U+00E1, "acute" for the combining mark   *)
(* U+0301, " " for the space).                                             *)
(*                                                                         *)
(* Two specifications share the search loop:                               *)
(*   SpecDecomp   one call of decompositions_candidates on arbitrary       *)
(*                inputs (LiveDecomp adds the fairness of a running loop), *)
(*   Spec         one call of find_semordnilaps, which runs the same loop  *)
(*                once per source word.                                    *)
(***************************************************************************)
EXTENDS Integers, Sequences, FiniteSets, TLC

VARIABLES
    pc,                 \* position of the running call
    norm_target,        \* decompositions_candidates: parameter norm_target
    norm_ngrams,        \* decompositions_candidates: parameter norm_ngrams
    maximum_ngrams,     \* decompositions_candidates: parameter maximum_ngrams
    candidates,         \* decompositions_candidates: the explicit stack
    solutions,          \* decompositions_candidates: the result list
    src_ngrams,         \* find_semordnilaps: parameter src_ngrams
    dst_ngrams,         \* find_semordnilaps: parameter dst_ngrams
    threshold,          \* find_semordnilaps: parameter threshold
    maxTokens,          \* the caller's configured maximum segment count
    rare,               \* the stub oracle: the phrases it rates 0
    src_norm_cache,     \* find_semordnilaps: src_norm_cache
    dst_norm_to_origins_dict, \* find_semordnilaps: dst_norm_to_origins_dict
    todo,               \* source words the main loop has not visited yet
    query_ngram,        \* find_semordnilaps: loop variable query_ngram
    semordnilaps,       \* find_semordnilaps: the result map
    norm_chain,         \* a word followed by its successive normalize_word images
    opts,               \* main: the SearchOptions built from the arguments
    files,              \* the file system: path -> the file's state
    raised,             \* the exception that left main or a callback, or "none"
    AppState,           \* the class attributes of AppState (state.py)
    dpg                 \* the dearpygui items and values the callbacks touch

decompVars == <<norm_target, norm_ngrams, maximum_ngrams, candidates, solutions>>
inputVars == <<src_ngrams, dst_ngrams, threshold, maxTokens, rare>>
engineVars == <<src_norm_cache, dst_norm_to_origins_dict, todo, query_ngram,
                semordnilaps>>
appVars == <<norm_chain, opts, files, raised, AppState, dpg>>
vars == <<pc, decompVars, inputVars, engineVars, appVars>>

---------------------------------------------------------------------------
(* Bounds of the model *)

\* longest target string handed to decompositions_candidates directly
MaxLen == 3
\* largest dictionary handed to decompositions_candidates directly
MaxDict == 2
\* largest maximum_ngrams handed to decompositions_candidates directly
MaxTokens == 2
\* largest source / target vocabulary handed to find_semordnilaps
MaxVocab == 2

---------------------------------------------------------------------------
(* Sequences and Python list / str primitives *)

Last(s) == s[Len(s)]

\* list.pop(): the list without its last element
Pop(s) == SubSeq(s, 1, Len(s) - 1)

\* s[i:j] with 0-based i, exclusive j
Slice(s, i, j) == SubSeq(s, i + 1, j)

\* s[::-1]
Reverse(s) == [k \in 1..Len(s) |-> s[Len(s) + 1 - k]]

RECURSIVE Concat(_)
\* "".join(parts)
Concat(parts) ==
    IF parts = <<>> THEN <<>> ELSE Head(parts) \o Concat(Tail(parts))

RECURSIVE Join(_)
\* " ".join(parts)
Join(parts) ==
    IF parts = <<>> THEN <<>>
    ELSE IF Len(parts) = 1 THEN Head(parts)
    ELSE Head(parts) \o <<" ">> \o Join(Tail(parts))

SeqToSet(s) == {s[k] : k \in 1..Len(s)}

\* all strings over alphabet A of length at most n
RECURSIVE Strings(_, _)
Strings(A, n) ==
    IF n = 0 THEN {<<>>}
    ELSE LET shorter == Strings(A, n - 1)
         IN shorter \cup {Append(s, c) : s \in shorter, c \in A}

\* the subsets of S with at most n elements
RECURSIVE SubsetsUpTo(_, _)
SubsetsUpTo(S, n) ==
    IF n = 0 THEN {{}}
    ELSE LET smaller == SubsetsUpTo(S, n - 1)
         IN smaller \cup {p \cup {x} : p \in smaller, x \in S}

---------------------------------------------------------------------------
(* normalize_word *)

\* the marks normalize_word removes
remove_unicode_marks == {"acute", "grave", "circumflex", "diaeresis"}

\* the canonical compositions of the model's code points (unicodedata):
\* <<starter, combining mark, composed code point>>
CanonicalPairs ==
    {<<"a", "acute", "a_acute">>, <<"a", "grave", "a_grave">>,
     <<"a", "circumflex", "a_circumflex">>, <<"a", "diaeresis", "a_diaeresis">>,
     <<"a", "tilde", "a_tilde">>,
     <<"u", "acute", "u_acute">>, <<"u", "grave", "u_grave">>,
     <<"u", "circumflex", "u_circumflex">>, <<"u", "diaeresis", "u_diaeresis">>,
     <<"u", "tilde", "u_tilde">>,
     <<"n", "acute", "n_acute">>, <<"n", "grave", "n_grave">>,
     <<"n", "tilde", "n_tilde">>,
     <<"a_circumflex", "acute", "a_circumflex_acute">>,
     <<"a_circumflex", "grave", "a_circumflex_grave">>,
     <<"a_circumflex", "tilde", "a_circumflex_tilde">>,
     <<"u_diaeresis", "acute", "u_diaeresis_acute">>,
     <<"u_diaeresis", "grave", "u_diaeresis_grave">>,
     <<"u_tilde", "acute", "u_tilde_acute">>}

RECURSIVE Decompose(_)
\* full canonical decomposition of one code point (unicodedata, NFD)
Decompose(c) ==
    IF \E t \in CanonicalPairs : t[3] = c
    THEN LET t == CHOOSE t \in CanonicalPairs : t[3] = c
         IN Decompose(t[1]) \o <<t[2]>>
    ELSE <<c>>

\* canonical composition of a starter and the mark that follows it (NFC)
Compose(base, mark) ==
    IF \E t \in CanonicalPairs : t[1] = base /\ t[2] = mark
    THEN (CHOOSE t \in CanonicalPairs : t[1] = base /\ t[2] = mark)[3]
    ELSE "none"

RECURSIVE NFD(_)
\* every mark of the model has combining class 230: no reordering
NFD(w) == IF w = <<>> THEN <<>> ELSE Decompose(Head(w)) \o NFD(Tail(w))

RECURSIVE StripFirstMark(_)
\* a removal of the first mark only: word.replace(mark, "", 1)
StripFirstMark(w) ==
    IF w = <<>> THEN <<>>
    ELSE IF Head(w) \in remove_unicode_marks THEN Tail(w)
    ELSE <<Head(w)>> \o StripFirstMark(Tail(w))

RECURSIVE StripMarks(_)
\* line 42: the code points that are not in remove_unicode_marks
StripMarks(w) ==
    IF w = <<>> THEN <<>>
    ELSE IF Head(w) \in remove_unicode_marks THEN StripMarks(Tail(w))
    ELSE <<Head(w)>> \o StripMarks(Tail(w))

RECURSIVE NFCFrom(_, _)
\* done: the composed prefix; a mark composes with the code point before it
NFCFrom(done, rest) ==
    IF rest = <<>> THEN done
    ELSE IF done # <<>> /\ Compose(Last(done), Head(rest)) # "none"
         THEN NFCFrom(Append(Pop(done), Compose(Last(done), Head(rest))),
                      Tail(rest))
         ELSE NFCFrom(Append(done, Head(rest)), Tail(rest))

NFC(w) == NFCFrom(<<>>, w)

normalize_word(word) == NFC(StripMarks(NFD(word)))

---------------------------------------------------------------------------
(* Optional values: None is the empty sequence, a value v is <<v>> *)

None == <<>>
Some(v) == <<v>>

\* the application state right after import (state.py): pairs and pairs_idx
\* are annotated and never assigned
InitialAppState ==
    [semordnilaps |-> None,
     source_words_filter |-> None,
     source_words_filter_path |-> None,
     target_words_filter |-> None,
     target_words_filter_path |-> None,
     pairs |-> None,
     current_source_word |-> None,
     current_target_word |-> None]

\* the items and values build_ui creates (main_window.py, lines 245-457)
InitialDpg ==
    [status |-> "",
     pending_filter_path |-> "",
     pending_filter_kind |-> "",
     confirm_create_modal |-> FALSE,
     interactive_group |-> FALSE]

\* the application and the command line are not running
AppIdle ==
    /\ norm_chain = <<>>
    /\ opts = None
    /\ files = <<>>
    /\ raised = "none"
    /\ AppState = InitialAppState
    /\ dpg = InitialDpg

---------------------------------------------------------------------------
(* normalize_word applied repeatedly *)

\* longest word handed to normalize_word directly
MaxNormLen == 3

\* base letters, the four marks normalize_word removes, a mark it keeps and
\* composed letters
NormAlphabet ==
    {"a", "u", "n", "acute", "grave", "circumflex", "diaeresis", "tilde",
     "a_acute", "n_tilde", "u_diaeresis_acute"}

\* word = normalize_word(word), on the last image
NormalizeAgain ==
    /\ pc = "normalize"
    /\ Len(norm_chain) < 3
    /\ norm_chain' = Append(norm_chain, normalize_word(Last(norm_chain)))
    /\ UNCHANGED <<pc, decompVars, inputVars, engineVars,
                   opts, files, raised, AppState, dpg>>

InitNormalize ==
    /\ pc = "normalize"
    /\ norm_chain \in {<<w>> : w \in Strings(NormAlphabet, MaxNormLen)}
    /\ opts = None
    /\ files = <<>>
    /\ raised = "none"
    /\ AppState = InitialAppState
    /\ dpg = InitialDpg
    /\ norm_target = <<>>
    /\ norm_ngrams = {}
    /\ maximum_ngrams = 0
    /\ candidates = <<>>
    /\ solutions = <<>>
    /\ src_ngrams = {}
    /\ dst_ngrams = {}
    /\ threshold = 0
    /\ maxTokens = 0
    /\ rare = {}
    /\ src_norm_cache = <<>>
    /\ dst_norm_to_origins_dict = <<>>
    /\ todo = {}
    /\ query_ngram = <<>>
    /\ semordnilaps = <<>>

SpecNormalize == InitNormalize /\ [][NormalizeAgain]_vars

\* C12: normalize_word is idempotent: the second image of a word equals the
\* first.
C12_Idempotent ==
    Len(norm_chain) = 3 => norm_chain[3] = norm_chain[2]

\* a word with a removed mark and a composed letter has been normalized twice
C12_Witness ==
    /\ Len(norm_chain) = 3
    /\ norm_chain[2] # norm_chain[1]
    /\ \E k \in 1..Len(norm_chain[1]) : norm_chain[1][k] \in remove_unicode_marks
    /\ \E k \in 1..Len(norm_chain[2]) : norm_chain[2][k] = "n_tilde"

---------------------------------------------------------------------------
(* decompositions_candidates *)

\* line 52: the stack's first state
InitialCandidates == << [i |-> 0, phrase |-> <<>>] >>

\* line 57: the state is a complete solution
IsSolution(i, target) == i = Len(target)

\* a prune that is off by one: len(phrase) > maximum_ngrams
PruneOffByOne(phrase, maximum) == Len(phrase) > maximum

\* line 61: the state is pruned
Prune(phrase, maximum) == Len(phrase) >= maximum

RECURSIVE Matches(_, _, _, _, _)
\* lines 64-67: the states pushed for j, j + 1, ..., len(target), in order
Matches(j, i, phrase, target, ngrams) ==
    IF j > Len(target) THEN <<>>
    ELSE LET frag == Slice(target, i, j)
         IN (IF frag \in ngrams
             THEN << [i |-> j, phrase |-> Append(phrase, frag)] >>
             ELSE <<>>)
            \o Matches(j + 1, i, phrase, target, ngrams)

\* an expansion that stops at the first matching fragment
ExpandFirstMatch(i, phrase, target, ngrams) ==
    LET pushed == Matches(i + 1, i, phrase, target, ngrams)
    IN IF pushed = <<>> THEN <<>> ELSE <<Head(pushed)>>

\* an expansion whose range starts at i: range(i, len(norm_target) + 1)
ExpandFromCursor(i, phrase, target, ngrams) ==
    Matches(i, i, phrase, target, ngrams)

\* lines 64-67: range(i + 1, len(norm_target) + 1)
Expand(i, phrase, target, ngrams) == Matches(i + 1, i, phrase, target, ngrams)

\* lines 54-67: one iteration of the while loop
DecompStep ==
    /\ pc \in {"decomp", "search"}
    /\ candidates # <<>>
    /\ LET top == Last(candidates)
           rest == Pop(candidates)
       IN IF IsSolution(top.i, norm_target)
          THEN /\ solutions' = Append(solutions, top.phrase)
               /\ candidates' = rest
          ELSE IF Prune(top.phrase, maximum_ngrams)
          THEN /\ candidates' = rest
               /\ UNCHANGED solutions
          ELSE /\ candidates' =
                     rest \o Expand(top.i, top.phrase, norm_target, norm_ngrams)
               /\ UNCHANGED solutions
    /\ UNCHANGED <<pc, norm_target, norm_ngrams, maximum_ngrams,
                   inputVars, engineVars, appVars>>

\* line 68, for a direct call: the loop has ended and solutions is returned
DecompReturn ==
    /\ pc = "decomp"
    /\ candidates = <<>>
    /\ pc' = "returned"
    /\ UNCHANGED <<decompVars, inputVars, engineVars, appVars>>

\* code points of the strings handed to decompositions_candidates directly
Alphabet == {"a", "b"}

DirectStrings == Strings(Alphabet, MaxLen)

\* a direct call of decompositions_candidates(norm_target, norm_ngrams, n)
InitDecomp ==
    /\ pc = "decomp"
    /\ norm_target \in DirectStrings
    /\ norm_ngrams \in SubsetsUpTo(DirectStrings, MaxDict)
    /\ maximum_ngrams \in 0..MaxTokens
    /\ candidates = InitialCandidates
    /\ solutions = <<>>
    /\ src_ngrams = {}
    /\ dst_ngrams = {}
    /\ threshold = 0
    /\ maxTokens = 0
    /\ rare = {}
    /\ src_norm_cache = <<>>
    /\ dst_norm_to_origins_dict = <<>>
    /\ todo = {}
    /\ query_ngram = <<>>
    /\ semordnilaps = <<>>
    /\ AppIdle

NextDecomp == DecompStep \/ DecompReturn

SpecDecomp == InitDecomp /\ [][NextDecomp]_vars

\* the interpreter keeps executing a loop that can take a step
LiveDecomp == SpecDecomp /\ WF_vars(NextDecomp)

---------------------------------------------------------------------------
(* find_semordnilaps *)

\* line 72: the default of parameter threshold
DefaultThreshold == 3

\* line 101: the segment bound find_semordnilaps hands to the search
EngineMaximumNgrams == 1

\* lines 80-82: src_norm_cache
SrcNormCache(src) == [g \in src |-> normalize_word(g)]

\* lines 84-86: dst_norm_to_origins_dict
DstNormToOrigins(dst) ==
    [ng \in {normalize_word(g) : g \in dst} |->
        {g \in dst : normalize_word(g) = ng}]

\* a query that is not reversed: src_norm_ngram itself
ReversedNgramForgotten(cache, query) == cache[query]

\* lines 97-98: reversed_ngram
ReversedNgram(cache, query) == Reverse(cache[query])

\* an insertion that rebinds the map to the current word's entry alone:
\*   semordnilaps = {query_ngram: {word_count: {phrase}}}
InsertRebinding(map, word, count, phrase) ==
    [w \in {word} |-> [k \in {count} |-> {phrase}]]

\* line 107: semordnilaps[query_ngram][word_count].add(phrase), on the
\* defaultdict of defaultdicts of sets of lines 90-92
Insert(map, word, count, phrase) ==
    LET by_count == IF word \in DOMAIN map THEN map[word] ELSE <<>>
        phrases == IF count \in DOMAIN by_count THEN by_count[count] ELSE {}
        new_by_count == [k \in DOMAIN by_count \cup {count} |->
                            IF k = count THEN phrases \cup {phrase}
                            ELSE by_count[k]]
    IN [w \in DOMAIN map \cup {word} |->
            IF w = word THEN new_by_count ELSE map[w]]

RECURSIVE InsertEach(_, _, _)
\* lines 104-107: the loop over the solutions of one query
InsertEach(map, word, sols) ==
    IF sols = <<>> THEN map
    ELSE InsertEach(Insert(map, word, Len(Head(sols)), Join(Head(sols))),
                    word, Tail(sols))

\* a loop that looks the word's entry up before it iterates:
\*   by_count = semordnilaps[query_ngram]; for sol in solutions: ...
RecordSolutionsHoisted(map, word, sols) ==
    InsertEach([w \in DOMAIN map \cup {word} |->
                    IF w \in DOMAIN map THEN map[w] ELSE <<>>],
               word, sols)

\* lines 104-107
RecordSolutions(map, word, sols) == InsertEach(map, word, sols)

\* the stub oracle's score of a phrase (line 29: zipf_frequency)
OracleScore(phrase) == IF phrase \in rare THEN 0 ELSE 8

\* line 29: the acceptance test of a phrase
Accepts(phrase) == OracleScore(phrase) >= threshold

\* lines 75-92: the caches, the indexes and the empty result map
Setup ==
    /\ pc = "start"
    /\ src_norm_cache' = SrcNormCache(src_ngrams)
    /\ dst_norm_to_origins_dict' = DstNormToOrigins(dst_ngrams)
    /\ todo' = src_ngrams
    /\ semordnilaps' = <<>>
    /\ pc' = "loop"
    /\ UNCHANGED <<decompVars, inputVars, query_ngram, appVars>>

\* lines 94-102: the next source word, in the set's iteration order, and the
\* call of decompositions_candidates(reversed_ngram, dst_norm_ngrams, 1)
NextQuery ==
    /\ pc = "loop"
    /\ \E g \in todo :
          /\ query_ngram' = g
          /\ todo' = todo \ {g}
          /\ norm_target' = ReversedNgram(src_norm_cache, g)
    /\ norm_ngrams' = DOMAIN dst_norm_to_origins_dict
    /\ maximum_ngrams' = EngineMaximumNgrams
    /\ candidates' = InitialCandidates
    /\ solutions' = <<>>
    /\ pc' = "search"
    /\ UNCHANGED <<inputVars, src_norm_cache, dst_norm_to_origins_dict,
                   semordnilaps, appVars>>

\* lines 100-107: the search has returned; its solutions are recorded
EndQuery ==
    /\ pc = "search"
    /\ candidates = <<>>
    /\ semordnilaps' = RecordSolutions(semordnilaps, query_ngram, solutions)
    /\ pc' = "loop"
    /\ UNCHANGED <<decompVars, inputVars, src_norm_cache,
                   dst_norm_to_origins_dict, todo, query_ngram, appVars>>

\* line 109: every source word has been visited
Return ==
    /\ pc = "loop"
    /\ todo = {}
    /\ pc' = "done"
    /\ UNCHANGED <<decompVars, inputVars, engineVars, appVars>>

\* the words the vocabularies are drawn from
roma == <<"r", "o", "m", "a">>
aroma == <<"a", "r", "o", "m", "a">>
amor == <<"a", "m", "o", "r">>
sam == <<"s", "a", "m">>
mas_accented == <<"m", "a_acute", "s">>
a_la == <<"a", " ", "l", "a">>
al_a == <<"a", "l", " ", "a">>

SourcePool == {<<>>, roma, aroma, sam, mas_accented, a_la}

TargetPool == {amor, <<"a">>, mas_accented, sam, al_a}

\* a call of find_semordnilaps(src_ngrams, dst_ngrams, threshold) by a
\* caller configured with maxTokens, with a deterministic stub oracle
Init ==
    /\ pc = "start"
    /\ src_ngrams \in SubsetsUpTo(SourcePool, MaxVocab)
    /\ dst_ngrams \in SubsetsUpTo(TargetPool, MaxVocab)
    /\ threshold \in {0, DefaultThreshold}
    /\ maxTokens \in 1..MaxTokens
    /\ rare \in SubsetsUpTo(dst_ngrams \cup DOMAIN DstNormToOrigins(dst_ngrams), 1)
    /\ norm_target = <<>>
    /\ norm_ngrams = {}
    /\ maximum_ngrams = 0
    /\ candidates = <<>>
    /\ solutions = <<>>
    /\ src_norm_cache = <<>>
    /\ dst_norm_to_origins_dict = <<>>
    /\ todo = {}
    /\ query_ngram = <<>>
    /\ semordnilaps = <<>>
    /\ AppIdle

Next == Setup \/ NextQuery \/ DecompStep \/ EndQuery \/ Return

Spec == Init /\ [][Next]_vars

---------------------------------------------------------------------------
(* main of search_engine.py *)

RECURSIVE LStrip(_)
LStrip(line) ==
    IF line # <<>> /\ Head(line) = " " THEN LStrip(Tail(line)) ELSE line

\* str.strip() for lines whose only whitespace is the space
Strip(line) == Reverse(LStrip(Reverse(LStrip(line))))

\* the exception open() or the decoding of a file of this kind raises
OpenError(kind) ==
    CASE kind = "missing" -> "FileNotFoundError"
      [] kind = "denied" -> "PermissionError"
      [] kind = "binary" -> "UnicodeDecodeError"
      [] OTHER -> "none"

\* a load_words that swallows the error and returns no words:
\*   try: ... except (OSError, ValueError): return []
load_words_lenient(file) ==
    [error |-> "none",
     words |-> IF file.kind = "text"
               THEN {Strip(l) : l \in file.content} \ {<<>>}
               ELSE {}]

\* lines 21-23: the stripped non-blank lines, or the exception raised
load_words(file) ==
    [error |-> OpenError(file.kind),
     words |-> IF file.kind = "text"
               THEN {Strip(l) : l \in file.content} \ {<<>>}
               ELSE {}]

\* lines 164-175: the arguments; the target lexicon defaults to the source
MainParse ==
    /\ pc = "main"
    /\ \E target \in {None, Some("tgt.txt")}, th \in {0, DefaultThreshold} :
          opts' = Some([source_lexicon_filepath |-> "src.txt",
                        target_lexicon_filepath |->
                            IF target # None THEN target[1] ELSE "src.txt",
                        out_filepath |-> "out.json",
                        freq_treshold |-> th])
    /\ pc' = "load_source"
    /\ UNCHANGED <<decompVars, inputVars, engineVars,
                   norm_chain, files, raised, AppState, dpg>>

\* lines 177-180: source_lexicon = load_words(...); an exception leaves main
MainLoadSource ==
    /\ pc = "load_source"
    /\ LET loaded == load_words(files[opts[1].source_lexicon_filepath])
       IN IF loaded.error # "none"
          THEN /\ raised' = loaded.error
               /\ pc' = "aborted"
               /\ UNCHANGED src_ngrams
          ELSE /\ src_ngrams' = loaded.words
               /\ pc' = "load_target"
               /\ UNCHANGED raised
    /\ UNCHANGED <<decompVars, dst_ngrams, threshold, maxTokens, rare,
                   engineVars, norm_chain, opts, files, AppState, dpg>>

\* lines 181-189: target_lexicon = load_words(...), then the call of
\* find_semordnilaps(source_lexicon, target_lexicon, threshold=...)
MainLoadTarget ==
    /\ pc = "load_target"
    /\ LET loaded == load_words(files[opts[1].target_lexicon_filepath])
       IN IF loaded.error # "none"
          THEN /\ raised' = loaded.error
               /\ pc' = "aborted"
               /\ UNCHANGED <<dst_ngrams, threshold>>
          ELSE /\ dst_ngrams' = loaded.words
               /\ threshold' = opts[1].freq_treshold
               /\ pc' = "start"
               /\ UNCHANGED raised
    /\ UNCHANGED <<decompVars, src_ngrams, maxTokens, rare,
                   engineVars, norm_chain, opts, files, AppState, dpg>>

\* lines 112-124, 191-199: the map is sorted and written as JSON
\* the sequences that enumerate the set S, each element once
RECURSIVE Orderings(_)
Orderings(S) ==
    IF S = {} THEN {<<>>}
    ELSE UNION {{<<x>> \o rest : rest \in Orderings(S \ {x})} : x \in S}

\* int(word_count) on the keys of the JSON file
IntOf(key) == CASE key = "0" -> 0 [] key = "1" -> 1 [] key = "2" -> 2
                [] OTHER -> 3

\* str(word_count)
StrOf(n) == CASE n = 0 -> "0" [] n = 1 -> "1" [] n = 2 -> "2" [] OTHER -> "3"

\* search_engine.py, lines 116-121: string keys and lists of phrases
JsonOf(map) ==
    [w \in DOMAIN map |->
        [key \in {StrOf(k) : k \in DOMAIN map[w]} |->
            CHOOSE list \in Orderings(map[w][IntOf(key)]) : TRUE]]

MainSave ==
    /\ pc = "done"
    /\ opts # None
    /\ files' = [files EXCEPT ![opts[1].out_filepath] =
                    [kind |-> "json", content |-> JsonOf(semordnilaps)]]
    /\ pc' = "saved"
    /\ UNCHANGED <<decompVars, inputVars, engineVars,
                   norm_chain, opts, raised, AppState, dpg>>

\* the lines the lexicon files are drawn from
SourceLines == {roma, <<" ", "s", "a", "m", " ">>, <<" ">>, a_la}

TargetLines == {amor, mas_accented, <<>>}

\* the states a lexicon file can be in
LexiconFiles(lines) ==
    {[kind |-> "text", content |-> c] : c \in SubsetsUpTo(lines, MaxVocab)}
    \cup {[kind |-> k, content |-> {}] : k \in {"missing", "denied", "binary"}}

\* python search_engine.py -s src.txt [-t tgt.txt] -o out.json [-th ...]
InitMain ==
    /\ pc = "main"
    /\ \E s \in LexiconFiles(SourceLines), t \in LexiconFiles(TargetLines) :
          files = [f \in {"src.txt", "tgt.txt", "out.json"} |->
                    CASE f = "src.txt" -> s
                      [] f = "tgt.txt" -> t
                      [] OTHER -> [kind |-> "missing", content |-> {}]]
    /\ opts = None
    /\ raised = "none"
    /\ norm_chain = <<>>
    /\ AppState = InitialAppState
    /\ dpg = InitialDpg
    /\ src_ngrams = {}
    /\ dst_ngrams = {}
    /\ threshold = 0
    /\ maxTokens = 1
    /\ rare = {}
    /\ norm_target = <<>>
    /\ norm_ngrams = {}
    /\ maximum_ngrams = 0
    /\ candidates = <<>>
    /\ solutions = <<>>
    /\ src_norm_cache = <<>>
    /\ dst_norm_to_origins_dict = <<>>
    /\ todo = {}
    /\ query_ngram = <<>>
    /\ semordnilaps = <<>>

NextMain ==
    \/ MainParse \/ MainLoadSource \/ MainLoadTarget
    \/ Setup \/ NextQuery \/ DecompStep \/ EndQuery \/ Return
    \/ MainSave

SpecMain == InitMain /\ [][NextMain]_vars

\* a lexicon file main reads cannot be opened or decoded
BadLexicon ==
    /\ opts # None
    /\ \/ files[opts[1].source_lexicon_filepath].kind # "text"
       \/ files[opts[1].target_lexicon_filepath].kind # "text"

\* find_semordnilaps has not been entered and nothing has been written
NoSearchNoOutput ==
    /\ pc \in {"main", "load_source", "load_target", "aborted"}
    /\ files["out.json"].kind = "missing"
    /\ semordnilaps = <<>>

\* C13 as stated: with a malformed or unreadable vocabulary file the run
\* fails with an InputError before any search begins and writes no output.
C13_InputError ==
    BadLexicon =>
        /\ NoSearchNoOutput
        /\ pc = "aborted" => raised = "InputError"

\* C13 as amended: with a missing, unreadable or undecodable vocabulary file
\* find_semordnilaps is never entered and no output is written, and the run
\* ends by the built-in exception of open() or of the decoding leaving main.
C13_AbortsBeforeSearch ==
    BadLexicon =>
        /\ NoSearchNoOutput
        /\ pc = "aborted" =>
              raised \in {"FileNotFoundError", "PermissionError",
                          "UnicodeDecodeError"}
        /\ pc \in {"load_source", "load_target"} => ENABLED NextMain

\* the source lexicon was loaded and the target lexicon made the run abort
C13_Witness ==
    /\ pc = "aborted"
    /\ src_ngrams # {}
    /\ raised = "UnicodeDecodeError"
    /\ files["out.json"].kind = "missing"

---------------------------------------------------------------------------
(* The review application: logic/*.py *)

\* str.lower() on one code point
LowerChar(c) ==
    CASE c = "A" -> "a" [] c = "M" -> "m"
      [] c = "O" -> "o" [] c = "R" -> "r" [] OTHER -> c

\* str.lower()
Lower(str) == [k \in 1..Len(str) |-> LowerChar(str[k])]

\* the regular expression class \w: alphanumeric code points and "_"
IsWordChar(c) == c \notin ({" ", "tilde"} \cup remove_unicode_marks)

\* the regular expression assertion \b between str[k] and str[k + 1]
WordBoundary(str, k) ==
    (k >= 1 /\ IsWordChar(str[k])) # (k < Len(str) /\ IsWordChar(str[k + 1]))

\* re.search(r"\b" + re.escape(f) + r"\b", ngram)
SearchWholeWord(f, ngram) ==
    \E k \in 0..(Len(ngram) - Len(f)) :
        /\ Slice(ngram, k, k + Len(f)) = f
        /\ WordBoundary(ngram, k)
        /\ WordBoundary(ngram, k + Len(f))

\* filtering.py, lines 4-14
should_filter_ngram(ngram, filters) ==
    \E f \in filters : SearchWholeWord(Lower(f), Lower(ngram))

\* a source filtering that compares the word with the filters as they are
filter_semordnilaps_sources_exact(map, filters) ==
    [word \in {w \in DOMAIN map : w \notin filters} |-> map[word]]

\* filtering.py, lines 17-27
filter_semordnilaps_sources(map, filters) ==
    [word \in {w \in DOMAIN map : ~should_filter_ngram(w, filters)} |->
        map[word]]

\* filtering.py, lines 39-44: the buckets of one word that keep a phrase
FilteredByLength(by_length, filters) ==
    LET kept(length) ==
            {ph \in by_length[length] : ~should_filter_ngram(ph, filters)}
    IN [length \in {l \in DOMAIN by_length : kept(l) # {}} |-> kept(length)]

\* filtering.py, lines 30-48
filter_semordnilaps_targets(map, filters) ==
    [word \in {w \in DOMAIN map :
                    DOMAIN FilteredByLength(map[w], filters) # {}} |->
        FilteredByLength(map[word], filters)]

\* the (word, length, phrase) triples of a map
TriplesOf(map) ==
    UNION {UNION {{<<w, k, ph>> : ph \in map[w][k]} : k \in DOMAIN map[w]} :
            w \in DOMAIN map}

\* an order that visits the words one after the other and, within a word,
\* the buckets one after the other
Grouped(order) ==
    \A a, b, c \in 1..Len(order) :
        (a < b /\ b < c) =>
            /\ order[a][1] = order[c][1] => order[b][1] = order[a][1]
            /\ (order[a][1] = order[c][1] /\ order[a][2] = order[c][2])
                  => order[b][2] = order[a][2]

\* iteration.py, lines 4-10: the (source_word, target_word) sequences the
\* generator can yield, one per iteration order of the dicts and sets
iter_source_target_pairs(map) ==
    {[n \in 1..Len(order) |-> <<order[n][1], order[n][3]>>] :
        order \in {o \in Orderings(TriplesOf(map)) : Grouped(o)}}

\* iteration.build_source_target_pairs: list(iter_source_target_pairs(...))
build_source_target_pairs(map) == iter_source_target_pairs(map)

\* the elements of list that satisfy Keep, in order
RECURSIVE SelectPairs(_, _, _)
SelectPairs(pairs, position, filters) ==
    IF pairs = <<>> THEN <<>>
    ELSE (IF should_filter_ngram(Head(pairs)[position], filters)
          THEN <<>> ELSE <<Head(pairs)>>)
         \o SelectPairs(Tail(pairs), position, filters)

\* filtering.filter_pairs_sources: the pairs whose source is not filtered
filter_pairs_sources(pairs, filters) == SelectPairs(pairs, 1, filters)

\* filtering.filter_pairs_targets: the pairs whose target is not filtered
filter_pairs_targets(pairs, filters) == SelectPairs(pairs, 2, filters)

\* loader.py, lines 14-20: int keys and sets of phrases
load_semordnilaps(json_data) ==
    [word \in DOMAIN json_data |->
        [n \in {IntOf(key) : key \in DOMAIN json_data[word]} |->
            SeqToSet(json_data[word][StrOf(n)])]]

\* loader.py, lines 25-37: the stripped non-blank lines of the file
load_words_filter(file) == {Strip(l) : l \in file.content} \ {<<>>}

\* persistence.py, lines 4-20: the file after append_word_if_missing
AppendedFile(file, word, current_words) ==
    IF word \in current_words THEN file
    ELSE [kind |-> "text", content |-> file.content \cup {word}]

\* persistence.py, lines 12-20: current_words after append_word_if_missing
AppendedWords(word, current_words) == current_words \cup {word}

---------------------------------------------------------------------------
(* The review application: ui/main_window.py *)

\* _set_status(text)
SetStatus(gui, text) == [gui EXCEPT !.status = text]

\* main_window.py, lines 137-147
advance_pair(state, gui) ==
    IF state.pairs[1] = <<>>
    THEN [AppState |-> state,
          dpg |-> [SetStatus(gui, "finished") EXCEPT
                      !.interactive_group = FALSE]]
    ELSE [AppState |-> [state EXCEPT
                          !.current_source_word = Some(state.pairs[1][1][1]),
                          !.current_target_word = Some(state.pairs[1][1][2])],
          dpg |-> gui]

\* a pop that takes the pair at the end of the list
PopLast(pairs) == SubSeq(pairs, 1, Len(pairs) - 1)

\* main_window.py, line 152: AppState.pairs.pop(0)
PopFirst(pairs) == Tail(pairs)

\* raised is the exception that left the last callback, "none" when it
\* returned; the file dialogs and the buttons answer while no modal window
\* is open
Interactive == pc = "ui" /\ ~dpg.confirm_create_modal

\* the files the JSON file dialog can return
JsonPaths == {"s.json", "gone.json"}

\* the files the filter file dialogs can return
FilterPaths == {"f1.txt", "f2.txt"}

\* the file the user picks in the dialog of each kind
PickedPath(kind) == IF kind = "source" THEN "f1.txt" ELSE "f2.txt"

\* main_window.py, lines 34-51
semordnilaps_selected ==
    /\ Interactive
    /\ \E path \in JsonPaths :
          IF files[path].kind = "missing"
          THEN /\ AppState' = [AppState EXCEPT !.semordnilaps = None]
               /\ dpg' = SetStatus(dpg, "invalid_file")
          ELSE /\ AppState' = [AppState EXCEPT !.semordnilaps =
                                  Some(load_semordnilaps(files[path].content))]
               /\ dpg' = SetStatus(dpg, "json_loaded")
    /\ raised' = "none"
    /\ UNCHANGED <<pc, decompVars, inputVars, engineVars,
                   norm_chain, opts, files>>

\* main_window.py, lines 62-87, for the source and the target file dialog
load_words_filter_selected ==
    /\ Interactive
    /\ \E kind \in {"source", "target"} :
          LET path == PickedPath(kind) IN
          IF files[path].kind # "missing"
          THEN LET words == load_words_filter(files[path])
               IN /\ AppState' =
                        IF kind = "source"
                        THEN [AppState EXCEPT
                                !.source_words_filter = Some(words),
                                !.source_words_filter_path = Some(path)]
                        ELSE [AppState EXCEPT
                                !.target_words_filter = Some(words),
                                !.target_words_filter_path = Some(path)]
                  /\ dpg' = SetStatus(dpg, "words_filter_loaded")
          ELSE /\ dpg' = [dpg EXCEPT !.pending_filter_path = path,
                                     !.pending_filter_kind = kind,
                                     !.confirm_create_modal = TRUE]
               /\ UNCHANGED AppState
    /\ raised' = "none"
    /\ UNCHANGED <<pc, decompVars, inputVars, engineVars,
                   norm_chain, opts, files>>

\* main_window.py, lines 90-123: the "Yes" button of the modal window. The
\* finally block sets a value with a tag that build_ui never adds; the
\* library either raises there, and the pending kind stays, or it does not.
create_output_file ==
    /\ pc = "ui"
    /\ dpg.confirm_create_modal
    /\ LET path == dpg.pending_filter_path
           kind == dpg.pending_filter_kind
           touched == IF files[path].kind = "missing"
                      THEN [kind |-> "text", content |-> {}]
                      ELSE files[path]
           words == load_words_filter(touched)
           done == IF kind \in {"source", "target"}
                   THEN "output_file_created" ELSE "error_creating_file"
           hidden == [SetStatus(dpg, done) EXCEPT
                        !.confirm_create_modal = FALSE]
       IN /\ files' = [files EXCEPT ![path] = touched]
          /\ AppState' =
                CASE kind = "source" ->
                        [AppState EXCEPT !.source_words_filter = Some(words)]
                  [] kind = "target" ->
                        [AppState EXCEPT !.target_words_filter = Some(words)]
                  [] OTHER -> AppState
          /\ \/ /\ dpg' = hidden
                /\ raised' = "SystemError"
             \/ /\ dpg' = [hidden EXCEPT !.pending_filter_kind = ""]
                /\ raised' = "none"
    /\ UNCHANGED <<pc, decompVars, inputVars, engineVars, norm_chain, opts>>

\* main_window.py, lines 455-458: the "No" button of the modal window
confirm_create_declined ==
    /\ pc = "ui"
    /\ dpg.confirm_create_modal
    /\ dpg' = [dpg EXCEPT !.confirm_create_modal = FALSE]
    /\ raised' = "none"
    /\ UNCHANGED <<pc, decompVars, inputVars, engineVars,
                   norm_chain, opts, files, AppState>>

\* main_window.py, lines 126-134: the "Start" button
start_interactive ==
    /\ Interactive
    /\ IF AppState.semordnilaps = None
       THEN /\ dpg' = SetStatus(dpg, "semordnilaps_not_loaded")
            /\ UNCHANGED AppState
       ELSE \E pairs \in build_source_target_pairs(AppState.semordnilaps[1]) :
              LET next == advance_pair(
                              [AppState EXCEPT !.pairs = Some(pairs)],
                              [dpg EXCEPT !.interactive_group = TRUE])
              IN /\ AppState' = next.AppState
                 /\ dpg' = next.dpg
    /\ raised' = "none"
    /\ UNCHANGED <<pc, decompVars, inputVars, engineVars,
                   norm_chain, opts, files>>

\* main_window.py, lines 150-155: the "Skip / Continue" button. The class
\* AppState annotates pairs without a value (state.py, line 12): reading it
\* before the first assignment raises AttributeError.
continue_pair ==
    /\ Interactive
    /\ IF AppState.pairs = None
       THEN /\ raised' = "AttributeError"
            /\ UNCHANGED <<AppState, dpg>>
       ELSE /\ IF AppState.pairs[1] # <<>>
               THEN LET next == advance_pair(
                                  [AppState EXCEPT !.pairs =
                                      Some(PopFirst(AppState.pairs[1]))],
                                  dpg)
                    IN /\ AppState' = next.AppState
                       /\ dpg' = next.dpg
               ELSE /\ dpg' = SetStatus(dpg, "finished")
                    /\ UNCHANGED AppState
            /\ raised' = "none"
    /\ UNCHANGED <<pc, decompVars, inputVars, engineVars,
                   norm_chain, opts, files>>

\* main_window.py, lines 158-174: the source word button, which is shown
\* with the interactive group
filter_source_word ==
    /\ Interactive
    /\ dpg.interactive_group
    /\ IF AppState.source_words_filter_path = None
       THEN /\ dpg' = SetStatus(dpg, "source_filter_not_set")
            /\ UNCHANGED <<AppState, files>>
       ELSE LET path == AppState.source_words_filter_path[1]
                word == AppState.current_source_word[1]
                current_words == AppState.source_words_filter[1]
                next == advance_pair(
                            [AppState EXCEPT
                                !.source_words_filter =
                                    Some(AppendedWords(word, current_words)),
                                !.pairs = Some(filter_pairs_sources(
                                                AppState.pairs[1], {word}))],
                            SetStatus(dpg, "added_to_source_filter"))
            IN /\ files' = [files EXCEPT ![path] =
                                AppendedFile(files[path], word, current_words)]
               /\ AppState' = next.AppState
               /\ dpg' = next.dpg
    /\ raised' = "none"
    /\ UNCHANGED <<pc, decompVars, inputVars, engineVars,
                   norm_chain, opts>>

\* main_window.py, lines 177-193: the target word button, which is shown
\* with the interactive group
filter_target_word ==
    /\ Interactive
    /\ dpg.interactive_group
    /\ IF AppState.target_words_filter_path = None
       THEN /\ dpg' = SetStatus(dpg, "target_filter_not_set")
            /\ UNCHANGED <<AppState, files>>
       ELSE LET path == AppState.target_words_filter_path[1]
                word == AppState.current_target_word[1]
                current_words == AppState.target_words_filter[1]
                next == advance_pair(
                            [AppState EXCEPT
                                !.target_words_filter =
                                    Some(AppendedWords(word, current_words)),
                                !.pairs = Some(filter_pairs_targets(
                                                AppState.pairs[1], {word}))],
                            SetStatus(dpg, "added_to_target_filter"))
            IN /\ files' = [files EXCEPT ![path] =
                                AppendedFile(files[path], word, current_words)]
               /\ AppState' = next.AppState
               /\ dpg' = next.dpg
    /\ raised' = "none"
    /\ UNCHANGED <<pc, decompVars, inputVars, engineVars,
                   norm_chain, opts>>

\* main_window.py, lines 207-238: the "Filter" button
run_filtering ==
    /\ Interactive
    /\ IF AppState.semordnilaps = None
       THEN /\ dpg' = SetStatus(dpg, "semordnilaps_not_loaded")
            /\ UNCHANGED AppState
       ELSE IF AppState.source_words_filter = None
                 \/ AppState.target_words_filter = None
       THEN /\ dpg' = SetStatus(dpg, "words_filter_not_loaded")
            /\ UNCHANGED AppState
       ELSE /\ dpg' = SetStatus(dpg, "filtering_targets_completed")
            /\ LET filtered == filter_semordnilaps_sources(
                                    AppState.semordnilaps[1],
                                    AppState.source_words_filter[1])
               IN AppState' = [AppState EXCEPT !.semordnilaps =
                                Some(filter_semordnilaps_targets(
                                        filtered,
                                        AppState.target_words_filter[1]))]
    /\ raised' = "none"
    /\ UNCHANGED <<pc, decompVars, inputVars, engineVars,
                   norm_chain, opts, files>>

MaxPairs == 2

Roma_capital == <<"R", "o", "m", "a">>
ROMA == <<"R", "O", "M", "A">>
amor_a == <<"a", "m", "o", "r", " ", "a">>
la_padded == <<" ", "l", "a", " ">>

\* the (word, length, phrase) entries the JSON files are drawn from
EntryPool ==
    {<<roma, 1, amor>>, <<roma, 2, amor_a>>, <<a_la, 1, al_a>>,
     <<Roma_capital, 1, amor>>}

\* the map that holds the entries T
MapOf(T) ==
    [w \in {t[1] : t \in T} |->
        [k \in {t[2] : t \in {u \in T : u[1] = w}} |->
            {t[3] : t \in {u \in T : u[1] = w /\ u[2] = k}}]]

\* a JSON file edited by hand: one bucket of roma has no phrase
EmptyBucketJson ==
    [w \in {roma} |-> [key \in {"1", "2"} |->
                          IF key = "1" THEN <<amor>> ELSE <<>>]]

\* the JSON files the application can be given
JsonPool ==
    {JsonOf(MapOf(T)) : T \in SubsetsUpTo(EntryPool, MaxPairs)}
    \cup {EmptyBucketJson}

\* the states the two filter files can be in
FilterFilePool(path) ==
    {[kind |-> "missing", content |-> {}]}
    \cup {[kind |-> "text", content |-> c] :
            c \in IF path = "f1.txt" THEN {{ROMA, la_padded, <<" ">>}}
                  ELSE {{<<"a">>}}}

\* the application after build_ui: state.py, lines 4-15
InitUi ==
    /\ pc = "ui"
    /\ \E json \in JsonPool, f1 \in FilterFilePool("f1.txt"),
          f2 \in FilterFilePool("f2.txt") :
          files = [f \in JsonPaths \cup FilterPaths |->
                    CASE f = "s.json" -> [kind |-> "json", content |-> json]
                      [] f = "f1.txt" -> f1
                      [] f = "f2.txt" -> f2
                      [] OTHER -> [kind |-> "missing", content |-> {}]]
    /\ AppState = InitialAppState
    /\ dpg = InitialDpg
    /\ raised = "none"
    /\ opts = None
    /\ norm_chain = <<>>
    /\ src_ngrams = {}
    /\ dst_ngrams = {}
    /\ threshold = 0
    /\ maxTokens = 1
    /\ rare = {}
    /\ norm_target = <<>>
    /\ norm_ngrams = {}
    /\ maximum_ngrams = 0
    /\ candidates = <<>>
    /\ solutions = <<>>
    /\ src_norm_cache = <<>>
    /\ dst_norm_to_origins_dict = <<>>
    /\ todo = {}
    /\ query_ngram = <<>>
    /\ semordnilaps = <<>>

NextUi ==
    \/ semordnilaps_selected
    \/ load_words_filter_selected
    \/ create_output_file
    \/ confirm_create_declined
    \/ start_interactive
    \/ continue_pair
    \/ filter_source_word
    \/ filter_target_word
    \/ run_filtering

SpecUi == InitUi /\ [][NextUi]_vars

---------------------------------------------------------------------------
(* Properties of decompositions_candidates *)

\* the ordered partitions of target into at most k consecutive non-empty
\* entries of ngrams
Partitions(target, ngrams, k) ==
    {p \in UNION {[1..n -> ngrams \ {<<>>}] : n \in 0..k} : Concat(p) = target}

\* C1: when decompositions_candidates returns, its result holds every ordered
\* partition of the target into at most maximum_ngrams consecutive dictionary
\* entries, each once, and nothing else (nothing when there is none).
C1_Completeness ==
    pc = "returned" =>
        /\ SeqToSet(solutions) = Partitions(norm_target, norm_ngrams, maximum_ngrams)
        /\ Len(solutions) = Cardinality(SeqToSet(solutions))

\* a call that returned two partitions with different segment counts
C1_Witness ==
    /\ pc = "returned"
    /\ \E a, b \in 1..Len(solutions) : Len(solutions[a]) < Len(solutions[b])

\* every state on the stack and every solution is within the bounds
StackWithinBounds ==
    /\ \A k \in 1..Len(candidates) :
          /\ 0 <= candidates[k].i
          /\ candidates[k].i <= Len(norm_target)
          /\ Len(candidates[k].phrase) <= maximum_ngrams
    /\ \A k \in 1..Len(solutions) : Len(solutions[k]) <= maximum_ngrams

\* a popped state with maximum_ngrams tokens and an unfinished cursor is
\* dropped: nothing is pushed and nothing is added to the result
PrunedIsDiscarded ==
    (/\ pc \in {"decomp", "search"}
     /\ candidates # <<>>
     /\ Last(candidates).i < Len(norm_target)
     /\ Len(Last(candidates).phrase) = maximum_ngrams)
    => (candidates' = Pop(candidates) /\ solutions' = solutions)

\* C8: in every state of the search loop each stacked state (i, partial) has
\* 0 <= i <= len(target) and len(partial) <= maximum_ngrams, every solution
\* has at most maximum_ngrams tokens, and a state with len(partial) =
\* maximum_ngrams and i < len(target) is discarded without being expanded.
C8_StackBounded == []StackWithinBounds /\ [][PrunedIsDiscarded]_vars

\* the loop is about to pop a state that has used all its tokens
C8_Witness ==
    /\ pc = "decomp"
    /\ Len(candidates) >= 2
    /\ maximum_ngrams >= 1
    /\ Last(candidates).i < Len(norm_target)
    /\ Len(Last(candidates).phrase) = maximum_ngrams

\* every state an iteration pushes has a larger cursor than the popped one
CursorAdvances ==
    (pc \in {"decomp", "search"} /\ candidates # <<>>) =>
        \A k \in Len(candidates)..Len(candidates') :
            candidates'[k].i > Last(candidates).i

\* C9: decompositions_candidates terminates: the stack becomes empty and the
\* call returns, every pushed state having a strictly larger cursor than the
\* state it was expanded from.
C9_Terminates == <>(pc = "returned") /\ [][CursorAdvances]_vars

\* a call on a non-empty target that returned after the stack emptied
C9_Witness ==
    /\ pc = "returned"
    /\ candidates = <<>>
    /\ Len(norm_target) = MaxLen
    /\ solutions # <<>>

---------------------------------------------------------------------------
(* Properties of find_semordnilaps *)

\* the (word, segment count, phrase) triples of the result map
Stored ==
    UNION {UNION {{<<w, k, ph>> : ph \in semordnilaps[w][k]} :
                    k \in DOMAIN semordnilaps[w]} :
            w \in DOMAIN semordnilaps}

\* the normalized forms of a sequence of entries
NormalizedForms(seg) == [n \in 1..Len(seg) |-> normalize_word(seg[n])]

\* C2: after find_semordnilaps completes, no stored phrase has an oracle
\* score below the threshold.
C2_ThresholdEnforced ==
    pc = "done" => \A e \in Stored : OracleScore(e[3]) >= threshold

\* C3: whenever reverse(normalize(w)) is the concatenation of the normalized
\* forms of k target entries, 1 <= k <= maxTokens, and the oracle accepts the
\* phrase, the phrase is in the map under key k (it counts as present in its
\* origin spelling or in its normalized spelling).
C3_ConfiguredSegmentCount ==
    pc = "done" =>
        \A w \in src_ngrams : \A k \in 1..maxTokens :
            \A seg \in [1..k -> dst_ngrams] :
                (/\ Concat(NormalizedForms(seg)) = Reverse(normalize_word(w))
                 /\ Accepts(Join(seg)))
                => \/ <<w, k, Join(seg)>> \in Stored
                   \/ <<w, k, Join(NormalizedForms(seg))>> \in Stored

\* C4: every stored phrase is the single-space join of entries of the target
\* vocabulary in their origin spelling.
C4_OriginSpelling ==
    \A e \in Stored :
        \E seg \in UNION {[1..n -> dst_ngrams] : n \in 0..e[2]} :
            e[3] = Join(seg)

\* C5: the map never holds an empty phrase nor the segment-count key 0.
C5_NoEmptyPhrase ==
    \A e \in Stored : e[2] # 0 /\ e[3] # <<>>

RECURSIVE Splits(_, _)
\* the sequences of k tokens whose single-space join is phrase
Splits(phrase, k) ==
    IF k = 0 THEN (IF phrase = <<>> THEN {<<>>} ELSE {})
    ELSE IF k = 1 THEN {<<phrase>>}
    ELSE UNION {{<<SubSeq(phrase, 1, j - 1)>> \o rest :
                    rest \in Splits(SubSeq(phrase, j + 1, Len(phrase)), k - 1)} :
                j \in {n \in 1..Len(phrase) : phrase[n] = " "}}

\* C6: every phrase stored in map[w][k] is the join of k tokens whose
\* normalized forms, concatenated in order, are exactly
\* reverse(normalize(w)).
C6_ExactConcatenation ==
    \A e \in Stored :
        \E tokens \in Splits(e[3], e[2]) :
            Concat(NormalizedForms(tokens)) = Reverse(normalize_word(e[1]))

\* the run has stored a phrase for a source word that carries an accent
C6_Witness ==
    /\ pc = "done"
    /\ \E e \in Stored : normalize_word(e[1]) # e[1] /\ e[3] # <<>>

\* the number of space-separated words of a phrase (0 for the empty phrase)
TokenCount(phrase) ==
    Cardinality({n \in 1..Len(phrase) :
                    /\ phrase[n] # " "
                    /\ (n = 1 \/ phrase[n - 1] = " ")})

\* C7: every phrase stored under key k has exactly k space-separated tokens.
C7_SegmentCountConsistent ==
    \A e \in Stored : TokenCount(e[3]) = e[2]

\* C10: at every point of the run, every word of the map has at least one
\* segment-count key and every segment-count key a non-empty phrase set.
C10_Compact ==
    \A w \in DOMAIN semordnilaps :
        /\ DOMAIN semordnilaps[w] # {}
        /\ \A k \in DOMAIN semordnilaps[w] : semordnilaps[w][k] # {}

\* the run ended with a recorded word and with a source word left out
C10_Witness ==
    /\ pc = "done"
    /\ DOMAIN semordnilaps # {}
    /\ src_ngrams \ DOMAIN semordnilaps # {}

\* the triples of word w in the result map
StoredOf(w) == {e \in Stored : e[1] = w}

\* the entry of w as a function of w, the target vocabulary and the segment
\* bound alone
EntryOf(w, dst, bound) ==
    {<<w, Len(p), Join(p)>> :
        p \in Partitions(Reverse(normalize_word(w)),
                         {normalize_word(g) : g \in dst}, bound)}

\* the main loop has finished with word w
Visited(w) == w \notin todo /\ ~(pc = "search" /\ query_ngram = w)

\* C11: whatever the order in which the source words are visited, the entry
\* of a visited word is EntryOf(w, dst_ngrams, bound), an unvisited word has
\* no entry, and so the final map is the same for every order and visiting
\* one word never changes the entry of another.
C11_OrderIndependent ==
    pc \in {"loop", "search", "done"} =>
        \A w \in src_ngrams :
            StoredOf(w) = IF Visited(w)
                          THEN EntryOf(w, dst_ngrams, EngineMaximumNgrams)
                          ELSE {}

\* a finished run over two source words that both have an entry
C11_Witness ==
    /\ pc = "done"
    /\ Cardinality(src_ngrams) >= 2
    /\ \A w \in src_ngrams : StoredOf(w) # {}

---------------------------------------------------------------------------
(* Properties of the review application *)

\* C14: for each kind, source and target, a filter set that is loaded has
\* its file path set too, so that the word buttons can append to the file.
C14_LoadedFilterHasPath ==
    pc = "ui" =>
        /\ AppState.source_words_filter # None
              => AppState.source_words_filter_path # None
        /\ AppState.target_words_filter # None
              => AppState.target_words_filter_path # None

\* C15: no callback reads AppState.pairs before its first assignment: no
\* button press ends in an AttributeError.
C15_PairsAssignedBeforeRead == pc = "ui" => raised # "AttributeError"

\* the review shows a pair: the list is assigned and not empty and the
\* current words are those of its head
ShowsHead(state) ==
    /\ state.pairs # None
    /\ state.pairs[1] # <<>>
    /\ state.current_source_word = Some(Head(state.pairs[1])[1])
    /\ state.current_target_word = Some(Head(state.pairs[1])[2])

\* a step after which the review follows its list: a non-empty list has
\* its head as the current words, a Skip/Continue on a non-empty list has
\* left exactly its tail, in order, the interactive group is shown only
\* with a head, and a list that the step has left empty is finished
FollowsList ==
    /\ (AppState'.pairs # None /\ AppState'.pairs[1] # <<>>)
          => ShowsHead(AppState')
    /\ (AppState.pairs # None /\ AppState.pairs[1] # <<>> /\ continue_pair)
          => AppState'.pairs = Some(Tail(AppState.pairs[1]))
    /\ dpg'.interactive_group => ShowsHead(AppState')
    /\ (AppState'.pairs = Some(<<>>) /\ AppState' # AppState)
          => ~dpg'.interactive_group /\ dpg'.status = "finished"

\* C16: every Start and every Skip/Continue is a step after which the
\* review follows its list (no step that fails to is a Start or a
\* Skip/Continue), so each Skip/Continue removes exactly the head and n
\* pairs are finished by exactly n Skip/Continue actions.
C16_ReviewFollowsList ==
    [][~FollowsList => ~(start_interactive \/ continue_pair)]_vars

\* a session over the two pairs of the loaded map, with no filter loaded,
\* that shows its second pair: one Skip/Continue has removed the first
C16_Witness ==
    /\ pc = "ui"
    /\ AppState.semordnilaps # None
    /\ AppState.source_words_filter = None
    /\ AppState.target_words_filter = None
    /\ Cardinality(TriplesOf(AppState.semordnilaps[1])) = 2
    /\ AppState.pairs # None
    /\ Len(AppState.pairs[1]) = 1
    /\ dpg.interactive_group
    /\ ShowsHead(AppState)

\* the words of a string: its maximal runs without a space
RECURSIVE WordsOf(_)
WordsOf(str) ==
    IF str = <<>> THEN <<>>
    ELSE IF Head(str) = " " THEN WordsOf(Tail(str))
    ELSE LET n == CHOOSE n0 \in 1..Len(str) :
                        /\ \A k \in 1..n0 : str[k] # " "
                        /\ n0 < Len(str) => str[n0 + 1] = " "
         IN <<SubSeq(str, 1, n)>> \o WordsOf(SubSeq(str, n + 1, Len(str)))

\* the words of filter f occur in ngram as whole words, one after the
\* other, whatever the case of the letters
MatchedAsWholeWords(f, ngram) ==
    LET wanted == WordsOf(Lower(f))
        given == WordsOf(Lower(ngram))
    IN /\ wanted # <<>>
       /\ \E k \in 0..(Len(given) - Len(wanted)) :
              SubSeq(given, k + 1, k + Len(wanted)) = wanted

\* C17: the Filter button, with the map and both filters loaded, leaves
\* exactly the entries of the previous map whose source word no source
\* filter matches and whose phrase no target filter matches, with no empty
\* bucket and no empty word entry; with one of the three not loaded it
\* leaves the map as it was.
C17_FilteringKeepsExactlyUnmatched ==
    [][run_filtering =>
        IF \/ AppState.semordnilaps = None
           \/ AppState.source_words_filter = None
           \/ AppState.target_words_filter = None
        THEN AppState'.semordnilaps = AppState.semordnilaps
        ELSE LET old == AppState.semordnilaps[1]
                 new == AppState'.semordnilaps[1]
                 sources == AppState.source_words_filter[1]
                 targets == AppState.target_words_filter[1]
             IN /\ TriplesOf(new) =
                      {t \in TriplesOf(old) :
                          /\ \A f \in sources : ~MatchedAsWholeWords(f, t[1])
                          /\ \A f \in targets : ~MatchedAsWholeWords(f, t[3])}
                /\ \A w \in DOMAIN new :
                      /\ DOMAIN new[w] # {}
                      /\ \A k \in DOMAIN new[w] : new[w][k] # {}]_vars

\* the Filter button has removed some entries of the loaded file and has
\* kept others
C17_Witness ==
    /\ pc = "ui"
    /\ dpg.status = "filtering_targets_completed"
    /\ AppState.semordnilaps # None
    /\ TriplesOf(AppState.semordnilaps[1]) # {}
    /\ TriplesOf(AppState.semordnilaps[1]) #
          TriplesOf(load_semordnilaps(files["s.json"].content))

===========================================================================
